---- MODULE Spec2Model ----
(***************************************************************************)
(* Model of the generator state machine of fuzzapi (src/variable.rs).      *)
(*                                                                         *)
(* A Generator is a cursor over a finite ordered list of equivalence       *)
(* classes.  Primitive generators hold a scalar index into a catalog       *)
(* (TC_Enum, TC_I32, TC_Usize, TC_Pointer of tc.rs), GenCString has eight  *)
(* hard-wired classes, GenUDT owns one child generator per member and      *)
(* advances them like an odometer.                                         *)
(*                                                                         *)
(* A generator value is a record tagged by field g with the name of the    *)
(* implementing struct; children of a GenUDT are nested records, as the    *)
(* Box<Generator> children are owned by their parent.                      *)
(***************************************************************************)
EXTENDS Integers, Sequences, FiniteSets, TLC

VARIABLES
    catalog,  \* class count of the catalogs TC_I32, TC_Usize, TC_Pointer
    gen,      \* the generator under test (Source.generator)
    gen0,     \* copy of the generator as it was right after construction
    prev,     \* copy of the generator as it was before the latest call
    failed,   \* TRUE once a call has panicked
    last,     \* the trait method called by the latest step
    out,      \* the text returned by the latest value() call
    pc,       \* position of the traversal loop
    reads,    \* the reads made by the traversal loop so far
    twin,     \* the generator of a second run that receives the same calls
    diverged, \* TRUE once the two runs have read different texts
    arg,      \* the type handed to generator()
    built,    \* what generator(arg) returned
    decls,    \* the declaration list handed to resolve_types
    rpc,      \* position of resolve_types
    ri,       \* index of the declaration the loop of resolve_types is at
    drv,      \* the local vector drv of resolve_types
    ret,      \* what resolve_types returned
    source,   \* a Source built by free, free_gen, retval and bound
    made,     \* how the root of the chain of source was built
    named,    \* what source.name() returned
    gens,     \* the generators g1..gm of the free variables of a function
    emitted,  \* number of combinations the driver has emitted
    dpc       \* position of the combination driver loop

genvars == <<catalog, gen, gen0, prev, failed, last, out, pc, reads>>
twinvars == <<twin, diverged>>
dispatchvars == <<arg, built>>
resolvevars == <<decls, rpc, ri, drv, ret>>
sourcevars == <<source, made, named>>
drivervars == <<gens, emitted, dpc>>
\* Everything outside the generator under test.
auxvars == <<twinvars, dispatchvars, resolvevars, sourcevars, drivervars>>
\* What the steps of each of the other parts leave alone.
twinframe == <<dispatchvars, resolvevars, sourcevars, drivervars>>
dispatchframe == <<genvars, twinvars, resolvevars, sourcevars, drivervars>>
resolveframe == <<genvars, twinvars, dispatchvars, sourcevars, drivervars>>
sourceframe == <<genvars, twinvars, dispatchvars, resolvevars, drivervars>>
driverframe == <<genvars, twinvars, dispatchvars, resolvevars, sourcevars>>
vars == <<genvars, auxvars>>

\* ------------------------------------------------------------------ bounds
\* Largest class count of a catalog of tc.rs the model explores.
MaxClasses == 3
\* Number of distinct seeds the thread-local random source may start from.
MaxSeed == 2
\* Largest number of members of the aggregates built over MemberTypes.
MaxFields == 2
\* Largest number of declarations in a list handed to resolve_types.
MaxDecls == 2
\* Largest number of bound Sources chained over one root.
MaxChain == 3
\* Largest number of free variables of the function the driver runs over.
MaxVars == 2

\* ------------------------------------------------------------------- types
\* typ::Type, as variable.rs matches on it.
T_I32       == [k |-> "I32"]
T_Integer   == [k |-> "Integer"]
T_Usize     == [k |-> "Usize"]
T_Character == [k |-> "Character"]
T_Void      == [k |-> "Void"]
T_Pointer(t) == [k |-> "Pointer", to |-> t]
T_Enum(nm, variants) == [k |-> "Enum", name |-> nm, variants |-> variants]
T_Field(nm, t) == [k |-> "Field", name |-> nm, ty |-> t]
T_UDT(nm, types) == [k |-> "UDT", name |-> nm, types |-> types]
\* Type::Struct(name, fields), a field being a (name, type) pair (api.rs).
T_Struct(nm, flds) == [k |-> "Struct", name |-> nm, flds |-> flds]

EnumValue(nm, v) == [name |-> nm, value |-> v]

\* enum Enumeration { FOO = 0 , BAR = 1 , BAZ = 42 , }  (api.rs test_enum_multi)
EnumMulti ==
    T_Enum("Enumeration",
           <<EnumValue("FOO", 0), EnumValue("BAR", 1), EnumValue("BAZ", 42)>>)
\* enum Enumeration { BLAH = 0 , }  (api.rs test_enum_single)
EnumSingle == T_Enum("Enumeration", <<EnumValue("BLAH", 0)>>)

PtrChar == T_Pointer(T_Character)
PtrVoid == T_Pointer(T_Void)

\* ---------------------------------------------------------------- catalogs
\* tc.rs: the catalogs behind the primitive generators.  n() is the number
\* of classes; the three curated catalogs have a fixed count of at least 1.
CatalogKinds == {"I32", "Usize", "Pointer"}

TC_Enum_new(t) == [kind |-> "Enum", variants |-> t.variants]
TC_I32_new     == [kind |-> "I32"]
TC_Usize_new   == [kind |-> "Usize"]
TC_Pointer_new == [kind |-> "Pointer"]

TC_n(cls) ==
    IF cls.kind = "Enum" THEN Len(cls.variants) ELSE catalog[cls.kind]

\* -------------------------------------------------------------- generators
RECURSIVE generator(_), generator_panics(_)
RECURSIVE Gen_n_state(_), Gen_done(_), Gen_next(_), Gen_reset(_)

SeqRange(s) == {s[i] : i \in 1..Len(s)}

\* GenNothing: the generator of bound and return-value Sources.
GenNothing == [g |-> "GenNothing"]
GenNothing_done(self) == TRUE
GenNothing_n_state(self) == 1
GenNothing_reset(self) == self

\* GenOpaque: a free variable that some API initialises.
GenOpaque_create(typ) == [g |-> "GenOpaque", ty |-> typ]
GenOpaque_next(self) == self
GenOpaque_done(self) == TRUE
GenOpaque_n_state(self) == 1
GenOpaque_reset(self) == self

\* GenEnum
GenEnum_create(t) == [g |-> "GenEnum", cls |-> TC_Enum_new(t), idx |-> 0]
\* Mutant of GenEnum_next: the index jumps to the last class.
GenEnum_next_skip(self) ==
    IF self.idx < TC_n(self.cls) - 1
    THEN [self EXCEPT !.idx = TC_n(self.cls) - 1]
    ELSE self
GenEnum_next(self) ==
    IF self.idx < TC_n(self.cls) - 1
    THEN [self EXCEPT !.idx = self.idx + 1]
    ELSE self
GenEnum_done(self) == self.idx >= TC_n(self.cls) - 1
GenEnum_n_state(self) == TC_n(self.cls)
GenEnum_reset(self) == [self EXCEPT !.idx = 0]

\* GenI32
GenI32_create(t) == [g |-> "GenI32", cls |-> TC_I32_new, idx |-> 0]
GenI32_next(self) ==
    IF self.idx < TC_n(self.cls) - 1
    THEN [self EXCEPT !.idx = self.idx + 1]
    ELSE self
GenI32_done(self) == self.idx >= TC_n(self.cls) - 1
GenI32_n_state(self) == TC_n(self.cls)
GenI32_reset(self) == [self EXCEPT !.idx = 0]

\* GenUsize
GenUsize_create(t) == [g |-> "GenUsize", cls |-> TC_Usize_new, idx |-> 0]
GenUsize_next(self) ==
    IF self.idx < TC_n(self.cls) - 1
    THEN [self EXCEPT !.idx = self.idx + 1]
    ELSE self
GenUsize_done(self) == self.idx >= TC_n(self.cls) - 1
GenUsize_n_state(self) == TC_n(self.cls)
GenUsize_reset(self) == [self EXCEPT !.idx = 0]

\* GenPointer
GenPointer_create_panics(t) == t.k # "Pointer"
GenPointer_create(t) ==
    [g |-> "GenPointer", ty |-> t, cls |-> TC_Pointer_new, idx |-> 0]
GenPointer_n_state(self) == TC_n(self.cls)
GenPointer_next(self) ==
    IF self.idx < TC_n(self.cls) - 1
    THEN [self EXCEPT !.idx = self.idx + 1]
    ELSE self
GenPointer_done(self) == self.idx >= TC_n(self.cls) - 1
GenPointer_reset(self) == [self EXCEPT !.idx = 0]

\* GenCString: the ranges ascii and special play no part in the cursor.
GenCString_create_panics(t) == t # T_Pointer(T_Character)
GenCString_create(t) == [g |-> "GenCString", idx |-> 0]
GenCString_n_state(self) == 8
\* Mutant of GenCString_next: the index wraps to 0 past the last class.
GenCString_next_wraps(self) ==
    IF self.idx < 7
    THEN [self EXCEPT !.idx = self.idx + 1]
    ELSE [self EXCEPT !.idx = 0]
GenCString_next(self) ==
    IF self.idx < 8
    THEN [self EXCEPT !.idx = self.idx + 1]
    ELSE self
\* Mutant of GenCString_done: the end state is taken to be index 8.
GenCString_done_late(self) == self.idx >= 8
GenCString_done(self) == self.idx >= 7
GenCString_reset(self) == [self EXCEPT !.idx = 0]

\* GenUDT
GenUDT_create_panics(t) ==
    \/ t.k # "UDT"
    \/ \E i \in 1..Len(t.types) : generator_panics(t.types[i])
GenUDT_create(t) ==
    LET tys == t.types
        val == [i \in 1..Len(tys) |-> generator(tys[i])]
        nval == Len(val)
    IN [g |-> "GenUDT", types |-> tys, values |-> val,
        idx |-> [i \in 1..nval |-> 0]]
\* Mutant of GenUDT_n_state: the fold adds the counts.
GenUDT_n_state_sum(self) ==
    LET RECURSIVE fold(_, _)
        fold(acc, i) ==
            IF i > Len(self.values) THEN acc
            ELSE fold(acc + Gen_n_state(self.values[i]), i + 1)
    IN fold(1, 1)
GenUDT_n_state(self) ==
    LET RECURSIVE fold(_, _)
        fold(acc, i) ==
            IF i > Len(self.values) THEN acc
            ELSE fold(acc * Gen_n_state(self.values[i]), i + 1)
    IN fold(1, 1)
\* Mutant of rposition_not_done: position() finds the leftmost child.
position_not_done(values) ==
    LET hits == {i \in 1..Len(values) : ~Gen_done(values[i])}
    IN IF hits = {} THEN 0 ELSE CHOOSE i \in hits : \A j \in hits : i <= j
\* values.iter().rposition(|v| !v.done()): 0 stands for None.
rposition_not_done(values) ==
    LET hits == {i \in 1..Len(values) : ~Gen_done(values[i])}
    IN IF hits = {} THEN 0 ELSE CHOOSE i \in hits : \A j \in hits : j <= i
\* Mutant of GenUDT_next: the children right of nxt are not reset.
GenUDT_next_no_reset(self) ==
    LET nxt == rposition_not_done(self.values)
    IN IF nxt = 0 THEN self
       ELSE [self EXCEPT !.values =
                [i \in 1..Len(self.values) |->
                    IF i = nxt THEN Gen_next(self.values[i])
                    ELSE self.values[i]]]
\* Mutant of GenUDT_next: every child but nxt is reset.
GenUDT_next_reset_all(self) ==
    LET nxt == rposition_not_done(self.values)
    IN IF nxt = 0 THEN self
       ELSE [self EXCEPT !.values =
                [i \in 1..Len(self.values) |->
                    IF i = nxt THEN Gen_next(self.values[i])
                    ELSE Gen_reset(self.values[i])]]
\* Mutant of GenUDT_next: the last child is advanced whether or not it is
\* done.
GenUDT_next_always_last(self) ==
    IF Len(self.values) = 0 THEN self
    ELSE [self EXCEPT !.values =
             [i \in 1..Len(self.values) |->
                 IF i = Len(self.values) THEN Gen_next(self.values[i])
                 ELSE self.values[i]]]
GenUDT_next(self) ==
    LET nxt == rposition_not_done(self.values)
    IN IF nxt = 0 THEN self
       ELSE [self EXCEPT !.values =
                [i \in 1..Len(self.values) |->
                    IF i = nxt THEN Gen_next(self.values[i])
                    ELSE IF i > nxt THEN Gen_reset(self.values[i])
                    ELSE self.values[i]]]
\* Mutant of GenUDT_done: a composite without children is never done.
GenUDT_done_nonempty(self) ==
    /\ Len(self.values) > 0
    /\ \A i \in 1..Len(self.values) : Gen_done(self.values[i])
GenUDT_done(self) == \A i \in 1..Len(self.values) : Gen_done(self.values[i])
\* Mutant of GenUDT_reset: the loop stops one child short.
GenUDT_reset_skip_last(self) ==
    [self EXCEPT !.values =
        [v \in 1..Len(self.values) |->
            IF v < Len(self.values) THEN Gen_reset(self.values[v])
            ELSE self.values[v]]]
GenUDT_reset(self) ==
    [self EXCEPT !.values =
        [v \in 1..Len(self.values) |-> Gen_reset(self.values[v])]]

\* fn generator(t: &Type): the most generic Generator for a type.
generator_panics(t) ==
    CASE t.k = "Enum" -> FALSE
      [] t.k = "I32" -> FALSE
      [] t.k = "Pointer" /\ t.to.k = "Character" -> GenCString_create_panics(t)
      [] t.k = "Pointer" -> GenPointer_create_panics(t)
      [] t.k = "Field" -> generator_panics(t.ty)
      [] t.k = "Usize" -> FALSE
      [] t.k = "UDT" -> GenUDT_create_panics(t)
      [] t.k = "Integer" -> FALSE
      [] OTHER -> TRUE
\* Mutant of generator: the generic pointer arm comes first.
generator_pointer_first(t) ==
    CASE t.k = "Enum" -> GenEnum_create(t)
      [] t.k = "I32" -> GenI32_create(t)
      [] t.k = "Pointer" -> GenPointer_create(t)
      [] t.k = "Pointer" /\ t.to.k = "Character" -> GenCString_create(t)
      [] t.k = "Field" -> generator(t.ty)
      [] t.k = "Usize" -> GenUsize_create(t)
      [] t.k = "UDT" -> GenUDT_create(t)
      [] t.k = "Integer" -> GenI32_create(t)
generator(t) ==
    CASE t.k = "Enum" -> GenEnum_create(t)
      [] t.k = "I32" -> GenI32_create(t)
      [] t.k = "Pointer" /\ t.to.k = "Character" -> GenCString_create(t)
      [] t.k = "Pointer" -> GenPointer_create(t)
      [] t.k = "Field" -> generator(t.ty)
      [] t.k = "Usize" -> GenUsize_create(t)
      [] t.k = "UDT" -> GenUDT_create(t)
      [] t.k = "Integer" -> GenI32_create(t)

\* Dynamic dispatch through Box<Generator>.
Gen_n_state(self) ==
    CASE self.g = "GenNothing" -> GenNothing_n_state(self)
      [] self.g = "GenOpaque" -> GenOpaque_n_state(self)
      [] self.g = "GenEnum" -> GenEnum_n_state(self)
      [] self.g = "GenI32" -> GenI32_n_state(self)
      [] self.g = "GenUsize" -> GenUsize_n_state(self)
      [] self.g = "GenPointer" -> GenPointer_n_state(self)
      [] self.g = "GenCString" -> GenCString_n_state(self)
      [] self.g = "GenUDT" -> GenUDT_n_state(self)
Gen_done(self) ==
    CASE self.g = "GenNothing" -> GenNothing_done(self)
      [] self.g = "GenOpaque" -> GenOpaque_done(self)
      [] self.g = "GenEnum" -> GenEnum_done(self)
      [] self.g = "GenI32" -> GenI32_done(self)
      [] self.g = "GenUsize" -> GenUsize_done(self)
      [] self.g = "GenPointer" -> GenPointer_done(self)
      [] self.g = "GenCString" -> GenCString_done(self)
      [] self.g = "GenUDT" -> GenUDT_done(self)
\* GenNothing::next panics; no other next() can fail.
Gen_next_panics(self) == self.g = "GenNothing"
Gen_next(self) ==
    CASE self.g = "GenOpaque" -> GenOpaque_next(self)
      [] self.g = "GenEnum" -> GenEnum_next(self)
      [] self.g = "GenI32" -> GenI32_next(self)
      [] self.g = "GenUsize" -> GenUsize_next(self)
      [] self.g = "GenPointer" -> GenPointer_next(self)
      [] self.g = "GenCString" -> GenCString_next(self)
      [] self.g = "GenUDT" -> GenUDT_next(self)
Gen_reset(self) ==
    CASE self.g = "GenNothing" -> GenNothing_reset(self)
      [] self.g = "GenOpaque" -> GenOpaque_reset(self)
      [] self.g = "GenEnum" -> GenEnum_reset(self)
      [] self.g = "GenI32" -> GenI32_reset(self)
      [] self.g = "GenUsize" -> GenUsize_reset(self)
      [] self.g = "GenPointer" -> GenPointer_reset(self)
      [] self.g = "GenCString" -> GenCString_reset(self)
      [] self.g = "GenUDT" -> GenUDT_reset(self)

\* ------------------------------------------------------------------ value()
\* A rendered value is a sequence of tokens: Ch(c) is one character written
\* from its code, Lit(s) a piece of text written as a whole, TC_value the
\* literal a catalog of tc.rs holds for a class, Type_name the name() of a
\* type (typ.rs).
Ch(c) == [ch |-> c]
Lit(s) == [lit |-> s]
TC_value(cls, idx) ==
    IF cls.kind = "Enum" THEN Lit(cls.variants[idx + 1].name)
    ELSE [cls |-> cls.kind, i |-> idx]
Type_name(t) == [tyname |-> t]

Quote == 34

\* rand::thread_rng(): the source starts from a seed the program does not
\* control; the k-th raw draw made by one value() call is Raw(seed, k).
Seeds == 0..(MaxSeed - 1)
Raw(seed, k) == seed + k
\* Range::new(low, high).ind_sample(rng): uniform over [low, high).
ind_sample(low, high, r) == low + (r % (high - low))

\* GenCString::normal: redraw while the character is one of " ? \ .
RECURSIVE GenCString_normal(_)
GenCString_normal(r) ==
    LET x == ind_sample(32, 126, r)
    IN IF x \in {34, 63, 92} THEN GenCString_normal(r + 1) ELSE x
\* GenCString::special: redraw while the character is one of 7..13.
RECURSIVE GenCString_special(_)
GenCString_special(r) ==
    LET x == ind_sample(0, 31, r)
    IN IF x \in {7, 8, 9, 10, 11, 12, 13} THEN GenCString_special(r + 1) ELSE x

GenCString_value_panics(self) == self.idx # 0 /\ ~(self.idx < 8)
\* Mutant of GenCString_value: the empty-string class draws a character as
\* the single-character class does.
GenCString_value_draw_at_1(self, seed) ==
    IF self.idx = 0 THEN <<Ch(Quote), Ch(Quote)>>
    ELSE
    LET body ==
          CASE self.idx \in {1, 2} -> <<Ch(GenCString_normal(Raw(seed, 0)))>>
            [] self.idx = 3 -> <<Ch(GenCString_special(Raw(seed, 0)))>>
            [] self.idx \in {4, 7} ->
                 LET length == ind_sample(3, 128, Raw(seed, 0))
                 IN [i \in 1..length |-> Ch(GenCString_normal(Raw(seed, i)))]
            [] self.idx \in {5, 6} ->
                 LET length == ind_sample(3, 128, Raw(seed, 0))
                 IN [i \in 1..length |-> Ch(GenCString_special(Raw(seed, i)))]
    IN <<Ch(Quote)>> \o body \o <<Ch(Quote)>>
GenCString_value(self, seed) ==
    IF self.idx = 0 THEN <<Ch(Quote), Ch(Quote)>>
    ELSE
    LET body ==
          CASE self.idx = 1 -> <<>>
            [] self.idx = 2 -> <<Ch(GenCString_normal(Raw(seed, 0)))>>
            [] self.idx = 3 -> <<Ch(GenCString_special(Raw(seed, 0)))>>
            [] self.idx = 4 ->
                 LET length == ind_sample(3, 128, Raw(seed, 0))
                 IN [i \in 1..length |-> Ch(GenCString_normal(Raw(seed, i)))]
            [] self.idx = 5 ->
                 LET length == ind_sample(3, 128, Raw(seed, 0))
                 IN [i \in 1..length |-> Ch(GenCString_special(Raw(seed, i)))]
            [] self.idx = 6 ->
                 LET length == ind_sample(3, 128, Raw(seed, 0))
                 IN [i \in 1..length |->
                       IF ind_sample(0, 1, Raw(seed, 2 * i - 1)) = 0
                       THEN Ch(GenCString_normal(Raw(seed, 2 * i)))
                       ELSE Ch(GenCString_special(Raw(seed, 2 * i)))]
            [] self.idx = 7 ->
                 LET length == ind_sample(512, 32768, Raw(seed, 0))
                 IN [i \in 1..length |-> Ch(GenCString_normal(Raw(seed, i)))]
    IN <<Ch(Quote)>> \o body \o <<Ch(Quote)>>

GenEnum_value(self) == <<TC_value(self.cls, self.idx)>>
GenI32_value(self) == <<TC_value(self.cls, self.idx)>>
GenUsize_value(self) == <<TC_value(self.cls, self.idx), Lit("ull")>>
GenPointer_value(self) ==
    <<Lit("("), Type_name(self.ty), Lit(")"),
      TC_value(self.cls, self.idx), Lit("ull")>>
GenOpaque_value(self) == <<Lit("/*("), Type_name(self.ty), Lit(")*/{}")>>

RECURSIVE Gen_value(_, _), Gen_value_panics(_)

\* GenUDT::value panics on a member type that is not a Field.
GenUDT_value_panics(self) ==
    \E i \in 1..Len(self.values) :
        \/ self.types[i].k # "Field"
        \/ Gen_value_panics(self.values[i])
GenUDT_value(self, seed) ==
    LET RECURSIVE members(_)
        members(i) ==
            IF i > Len(self.values) THEN <<>>
            ELSE <<Lit("\t\t."), Lit(self.types[i].name), Lit(" = ")>>
                 \o Gen_value(self.values[i], seed)
                 \o <<Lit(",\n")>> \o members(i + 1)
    IN <<Lit("{\n")>> \o members(1) \o <<Lit("\t}")>>

Gen_value_panics(self) ==
    CASE self.g = "GenNothing" -> TRUE
      [] self.g = "GenCString" -> GenCString_value_panics(self)
      [] self.g = "GenUDT" -> GenUDT_value_panics(self)
      [] OTHER -> FALSE
Gen_value(self, seed) ==
    CASE self.g = "GenOpaque" -> GenOpaque_value(self)
      [] self.g = "GenEnum" -> GenEnum_value(self)
      [] self.g = "GenI32" -> GenI32_value(self)
      [] self.g = "GenUsize" -> GenUsize_value(self)
      [] self.g = "GenPointer" -> GenPointer_value(self)
      [] self.g = "GenCString" -> GenCString_value(self, seed)
      [] self.g = "GenUDT" -> GenUDT_value(self, seed)

\* The scalar indices of a generator, left to right (dbg prints them).
RECURSIVE Indices(_)
Indices(self) ==
    CASE self.g \in {"GenEnum", "GenI32", "GenUsize", "GenPointer",
                     "GenCString"} -> <<self.idx>>
      [] self.g = "GenUDT" ->
           LET RECURSIVE cat(_)
               cat(i) == IF i > Len(self.values) THEN <<>>
                         ELSE Indices(self.values[i]) \o cat(i + 1)
           IN cat(1)
      [] OTHER -> <<>>

\* ---------------------------------------------------------- type universe
\* struct inner { enum Enumeration a; usize b; }
InnerPair ==
    T_UDT("inner", <<T_Field("a", EnumMulti), T_Field("b", T_Usize)>>)
\* struct empty { }
InnerEmpty == T_UDT("empty", <<>>)

\* The member types the aggregates of every shape are built over.
MemberTypes == {T_I32, PtrChar, EnumSingle}

FieldName(i) == CASE i = 1 -> "f1" [] i = 2 -> "f2" [] i = 3 -> "f3"
                  [] OTHER -> "fn"

\* Every aggregate of up to MaxFields named members over MemberTypes.
Aggregates ==
    UNION {{T_UDT("udt", [i \in 1..n |-> T_Field(FieldName(i), m[i])]) :
               m \in [1..n -> MemberTypes]} : n \in 0..MaxFields}

\* Aggregates with nested aggregates and with the remaining member kinds.
DeepTypes ==
    {T_UDT("nest1", <<T_Field("a", InnerPair), T_Field("b", EnumSingle)>>),
     T_UDT("nest2", <<T_Field("a", PtrChar), T_Field("b", InnerPair)>>),
     T_UDT("nest3", <<T_Field("a", InnerEmpty), T_Field("b", EnumMulti),
                      T_Field("c", InnerEmpty)>>),
     T_UDT("deep", <<T_Field("p", PtrVoid),
                     T_Field("q", T_UDT("mid", <<T_Field("r", InnerPair),
                                                 T_Field("s", T_Integer)>>))>>),
     T_UDT("nest4", <<T_Field("a", EnumSingle),
                      T_Field("s", T_UDT("in", <<T_Field("k", PtrChar),
                                                 T_Field("e", EnumSingle)>>))>>),
     T_UDT("bare", <<T_I32, EnumMulti>>),
     T_UDT("bad", <<T_Field("c", T_Character)>>)}

Types ==
    {T_I32, T_Integer, T_Usize, PtrChar, PtrVoid, EnumMulti, EnumSingle,
     T_Character, T_Void}
    \cup Aggregates \cup DeepTypes

\* The types generator() is called on by itself: the types above, pointers
\* to every kind of pointee, named fields and struct types.
Pointees ==
    {T_I32, T_Integer, T_Usize, T_Character, T_Void, PtrChar, PtrVoid,
     EnumMulti, InnerPair}
StructTypes ==
    UNION {{T_Struct("_unnamed_struct_", [i \in 1..n |-> <<"_unnamed_", m[i]>>]) :
               m \in [1..n -> MemberTypes]} : n \in 0..MaxFields}
DispatchTypes ==
    Types
    \cup {T_Pointer(t) : t \in Pointees}
    \cup {T_Field("f", t) : t \in Pointees \cup {T_Field("g", PtrChar)}}
    \cup StructTypes

RECURSIVE UsesCatalog(_, _)
UsesCatalog(t, kind) ==
    CASE t.k \in {"I32", "Integer"} -> kind = "I32"
      [] t.k = "Usize" -> kind = "Usize"
      [] t.k = "Pointer" -> kind = "Pointer" /\ t.to.k # "Character"
      [] t.k = "Field" -> UsesCatalog(t.ty, kind)
      [] t.k = "UDT" -> \E i \in 1..Len(t.types) : UsesCatalog(t.types[i], kind)
      [] OTHER -> FALSE

\* --------------------------------------------------------------- the system
Unconstructed == [g |-> "none"]

\* A catalog no generator of the Source consults is left at one class.
CatalogsFor(t) ==
    {c \in [CatalogKinds -> 1..MaxClasses] :
        \A kind \in CatalogKinds : ~UsesCatalog(t, kind) => c[kind] = 1}

\* Source::free(nm, ty, o): generator(ty), which may panic.
InitFree ==
    \E ty \in Types :
        /\ catalog \in CatalogsFor(ty)
        /\ failed = generator_panics(ty)
        /\ gen = IF generator_panics(ty) THEN Unconstructed ELSE generator(ty)
\* Source::free_gen(nm, gen, o) with a GenOpaque.
InitFreeGen ==
    /\ catalog \in CatalogsFor(T_Void)
    /\ failed = FALSE
    /\ gen = GenOpaque_create(PtrVoid)
\* Source::bound(parent, o) and Source::retval(name, fqn, oper).
InitBound ==
    /\ catalog \in CatalogsFor(T_Void)
    /\ failed = FALSE
    /\ gen = GenNothing

InitGenerator ==
    /\ InitFree \/ InitFreeGen \/ InitBound
    /\ gen0 = gen
    /\ prev = gen
    /\ last = "create"
    /\ out = <<>>
    /\ pc \in {"idle", "read"}
    /\ reads = <<>>

\* No second run.
TwinIdle == twin = Unconstructed /\ diverged = FALSE
\* generator() is not called on its own.
DispatchIdle == arg = T_Void /\ built = Unconstructed
\* resolve_types is not called.
NoResult == [r |-> "none"]
ResolveIdle ==
    /\ decls = <<>> /\ rpc = "idle" /\ ri = 1 /\ drv = <<>> /\ ret = NoResult
\* No Source chain is built.
NotCalled == [r |-> "none"]
SourceIdle == source = NotCalled /\ made = NotCalled /\ named = NotCalled
\* The combination driver does not run.
DriverIdle == gens = <<>> /\ emitted = 0 /\ dpc = "idle"

Init ==
    /\ InitGenerator
    /\ TwinIdle /\ DispatchIdle /\ ResolveIdle /\ SourceIdle /\ DriverIdle

\* gen.next()
CallNext ==
    /\ ~failed /\ pc = "idle"
    /\ prev' = gen
    /\ IF Gen_next_panics(gen)
       THEN failed' = TRUE /\ gen' = gen
       ELSE failed' = FALSE /\ gen' = Gen_next(gen)
    /\ last' = "next"
    /\ out' = <<>>
    /\ UNCHANGED <<catalog, gen0, pc, reads>>
    /\ UNCHANGED auxvars

\* gen.reset()
CallReset ==
    /\ ~failed /\ pc = "idle"
    /\ prev' = gen
    /\ gen' = Gen_reset(gen)
    /\ last' = "reset"
    /\ out' = <<>>
    /\ UNCHANGED <<catalog, gen0, failed, pc, reads>>
    /\ UNCHANGED auxvars

\* gen.value()
CallValue ==
    /\ ~failed /\ pc = "idle"
    /\ prev' = gen
    /\ IF Gen_value_panics(gen)
       THEN failed' = TRUE /\ out' = <<>>
       ELSE failed' = FALSE /\ \E seed \in Seeds : out' = Gen_value(gen, seed)
    /\ last' = "value"
    /\ UNCHANGED <<catalog, gen, gen0, pc, reads>>
    /\ UNCHANGED auxvars

\* The traversal loop: reset, then read value() and call next() until
\* done() holds at a read.
StartTraversal ==
    /\ ~failed /\ pc = "idle"
    /\ prev' = gen
    /\ gen' = Gen_reset(gen)
    /\ last' = "reset"
    /\ out' = <<>>
    /\ pc' = "read"
    /\ reads' = <<>>
    /\ UNCHANGED <<catalog, gen0, failed>>
    /\ UNCHANGED auxvars

TraversalRead ==
    /\ ~failed /\ pc = "read"
    /\ prev' = gen
    /\ IF Gen_value_panics(gen)
       THEN failed' = TRUE /\ out' = <<>> /\ UNCHANGED <<pc, reads>>
       ELSE /\ failed' = FALSE
            /\ \E seed \in Seeds : out' = Gen_value(gen, seed)
            /\ reads' = Append(reads, Indices(gen))
            /\ pc' = "check"
    /\ last' = "value"
    /\ UNCHANGED <<catalog, gen, gen0>>
    /\ UNCHANGED auxvars

\* done() does not hold: call next() and read again.
TraversalAdvance ==
    /\ ~failed /\ pc = "check" /\ ~Gen_done(gen)
    /\ prev' = gen
    /\ IF Gen_next_panics(gen)
       THEN failed' = TRUE /\ gen' = gen
       ELSE failed' = FALSE /\ gen' = Gen_next(gen)
    /\ last' = "next"
    /\ out' = <<>>
    /\ pc' = "read"
    /\ UNCHANGED <<catalog, gen0, reads>>
    /\ UNCHANGED auxvars

\* done() holds: the loop ends.
TraversalDone ==
    /\ ~failed /\ pc = "check" /\ Gen_done(gen)
    /\ last' = "done"
    /\ out' = <<>>
    /\ pc' = "done"
    /\ UNCHANGED <<catalog, gen, gen0, prev, failed, reads>>
    /\ UNCHANGED auxvars

\* The caller goes on to use the generator after the loop.
TraversalEnd ==
    /\ ~failed /\ pc = "done"
    /\ pc' = "idle"
    /\ reads' = <<>>
    /\ UNCHANGED <<catalog, gen, gen0, prev, failed, last, out>>
    /\ UNCHANGED auxvars

Next ==
    \/ CallNext
    \/ CallReset
    \/ CallValue
    \/ StartTraversal
    \/ TraversalRead
    \/ TraversalAdvance
    \/ TraversalDone
    \/ TraversalEnd

Spec == Init /\ [][Next]_vars

\* ------------------------------------------------------------ the twin run
\* Two runs of one program over the same Source: both receive the same
\* sequence of next(), reset() and value() calls, each run drawing from its
\* own random source.
InitTwin ==
    /\ InitGenerator
    /\ pc = "idle"
    /\ twin = gen
    /\ diverged = FALSE
    /\ DispatchIdle /\ ResolveIdle /\ SourceIdle /\ DriverIdle

TwinNext ==
    /\ ~failed
    /\ prev' = gen
    /\ IF Gen_next_panics(gen) \/ Gen_next_panics(twin)
       THEN failed' = TRUE /\ UNCHANGED <<gen, twin>>
       ELSE failed' = FALSE /\ gen' = Gen_next(gen) /\ twin' = Gen_next(twin)
    /\ last' = "next"
    /\ out' = <<>>
    /\ UNCHANGED <<catalog, gen0, pc, reads, diverged, twinframe>>

TwinReset ==
    /\ ~failed
    /\ prev' = gen
    /\ gen' = Gen_reset(gen)
    /\ twin' = Gen_reset(twin)
    /\ last' = "reset"
    /\ out' = <<>>
    /\ UNCHANGED <<catalog, gen0, failed, pc, reads, diverged, twinframe>>

\* Mutant of TwinValue: value() moves the cursor on when its first draw is
\* odd.
TwinValue_draw_moves_cursor ==
    /\ ~failed /\ ~Gen_value_panics(gen) /\ ~Gen_value_panics(twin)
    /\ prev' = gen
    /\ \E seedA, seedB \in Seeds :
         LET textA == Gen_value(gen, seedA)
             textB == Gen_value(twin, seedB)
         IN /\ out' = textA
            /\ diverged' = (diverged \/ textA # textB)
            /\ gen' = IF Raw(seedA, 0) % 2 = 1 /\ ~Gen_done(gen)
                      THEN Gen_next(gen) ELSE gen
            /\ twin' = IF Raw(seedB, 0) % 2 = 1 /\ ~Gen_done(twin)
                       THEN Gen_next(twin) ELSE twin
    /\ last' = "value"
    /\ UNCHANGED <<catalog, gen0, failed, pc, reads, twinframe>>
\* value(&self) in both runs: the texts may differ, neither generator is
\* written.
TwinValue ==
    /\ ~failed
    /\ prev' = gen
    /\ IF Gen_value_panics(gen) \/ Gen_value_panics(twin)
       THEN failed' = TRUE /\ out' = <<>> /\ UNCHANGED diverged
       ELSE /\ failed' = FALSE
            /\ \E seedA \in Seeds :
                 /\ out' = Gen_value(gen, seedA)
                 /\ diverged' \in {diverged \/ Gen_value(twin, seedB) # out' :
                                     seedB \in Seeds}
    /\ last' = "value"
    /\ UNCHANGED <<catalog, gen, gen0, pc, reads, twin, twinframe>>

NextTwin ==
    \/ TwinNext
    \/ TwinReset
    \/ TwinValue

SpecTwin == InitTwin /\ [][NextTwin]_vars

\* ------------------------------------------------------ generator() alone
\* No Source is under test.
NoSourceUnderTest ==
    /\ gen = Unconstructed /\ gen0 = Unconstructed /\ prev = Unconstructed
    /\ failed = FALSE
    /\ last = "create"
    /\ out = <<>>
    /\ pc = "idle"
    /\ reads = <<>>
GeneratorIdle ==
    /\ catalog = [kind \in CatalogKinds |-> 1]
    /\ NoSourceUnderTest

Panicked == [g |-> "panic"]

InitDispatch ==
    /\ arg \in DispatchTypes
    /\ built = Unconstructed
    /\ GeneratorIdle /\ TwinIdle /\ ResolveIdle /\ SourceIdle /\ DriverIdle

\* generator(&arg)
Dispatch ==
    /\ built = Unconstructed
    /\ built' = IF generator_panics(arg) THEN Panicked ELSE generator(arg)
    /\ UNCHANGED <<arg, dispatchframe>>

NextDispatch == Dispatch

SpecDispatch == InitDispatch /\ [][NextDispatch]_vars

\* ------------------------------------------------------------ the resolver
\* api::DeclType
D_Basic(t) == [d |-> "Basic", ty |-> t]
D_Struct(udt) == [d |-> "Struct", udt |-> udt]
D_Enum(en) == [d |-> "Enum", en |-> en]
D_StructRef(nm) == [d |-> "StructRef", ref |-> nm]
D_EnumRef(nm) == [d |-> "EnumRef", ref |-> nm]
\* api::UDTDecl, api::FreeVarDecl, api::FuncDecl
UDTDecl(nm, ty) == [name |-> nm, ty |-> ty]
FreeVarDecl(nm, op, genname, ty) ==
    [name |-> nm, op |-> op, genname |-> genname, ty |-> ty]
FuncDecl(nm, retval, arguments) ==
    [name |-> nm, retval |-> retval, arguments |-> arguments]
\* api::Declaration
Free(fvar) == [decl |-> "Free", fvar |-> fvar]
Function(fqn) == [decl |-> "Function", fqn |-> fqn]
UDT(udecl) == [decl |-> "UDT", udecl |-> udecl]
\* typ::Decl::Ty
Decl_Ty(t) == [decl |-> "Ty", ty |-> t]

\* fn type_from_decl(decl: &DeclType) -> Type; unimplemented!() panics.
RECURSIVE type_from_decl(_), type_from_decl_panics(_)
type_from_decl_panics(decl) ==
    CASE decl.d = "Basic" -> FALSE
      [] decl.d = "Struct" ->
           \E i \in 1..Len(decl.udt) :
               LET f == decl.udt[i]
               IN CASE f.ty.d = "Basic" -> FALSE
                    [] f.ty.d = "Struct" ->
                         \E j \in 1..Len(f.ty.udt) :
                             type_from_decl_panics(f.ty.udt[j].ty)
                    [] f.ty.d = "Enum" -> FALSE
                    [] OTHER -> TRUE
      [] OTHER -> TRUE
type_from_decl(decl) ==
    CASE decl.d = "Basic" -> decl.ty
      [] decl.d = "Struct" ->
           LET pushed(f) ==
                 CASE f.ty.d = "Basic" -> << <<"_unnamed_", f.ty.ty>> >>
                   [] f.ty.d = "Struct" ->
                        [j \in 1..Len(f.ty.udt) |->
                            <<"_unnamed2_", type_from_decl(f.ty.udt[j].ty)>>]
                   [] f.ty.d = "Enum" ->
                        << <<"_unnamed3_",
                             T_Enum("_unnamed_enum_", f.ty.en)>> >>
               RECURSIVE flds(_)
               flds(i) == IF i > Len(decl.udt) THEN <<>>
                          ELSE pushed(decl.udt[i]) \o flds(i + 1)
           IN T_Struct("_unnamed_struct_", flds(1))

\* The declarations the lists handed to resolve_types are built from.
Op_Null == "Null"
Op_Deref == "Deref"
Op_AddressOf == "AddressOf"
ScalarOps == {Op_Null, Op_Deref, Op_AddressOf}

PairDecl ==
    D_Struct(<<UDTDecl("a", D_Basic(T_I32)), UDTDecl("b", D_Basic(T_Usize))>>)
DupDecl ==
    D_Struct(<<UDTDecl("a", D_Basic(T_I32)), UDTDecl("a", D_Basic(T_Usize))>>)
NestedDecl ==
    D_Struct(<<UDTDecl("in", D_Struct(<<UDTDecl("p", D_Basic(T_I32)),
                                        UDTDecl("q", D_Basic(PtrChar))>>)),
               UDTDecl("e", D_Enum(EnumMulti.variants))>>)
FreeDecls ==
    {Free(FreeVarDecl("blah", Op_Null, "I32", D_Basic(T_I32))),
     Free(FreeVarDecl("key", Op_Deref, "cstr", D_Basic(PtrChar))),
     Free(FreeVarDecl("none", Op_Null, "udt", D_Struct(<<>>))),
     Free(FreeVarDecl("one", Op_AddressOf, "udt",
                      D_Struct(<<UDTDecl("a", D_Basic(T_I32))>>))),
     Free(FreeVarDecl("pair", Op_AddressOf, "udt", PairDecl)),
     Free(FreeVarDecl("nest", Op_AddressOf, "udt", NestedDecl)),
     Free(FreeVarDecl("byref", Op_AddressOf, "udt", D_StructRef("entry"))),
     Free(FreeVarDecl("en", Op_Null, "enum", D_Enum(EnumSingle.variants))),
     Free(FreeVarDecl("inref", Op_Null, "udt",
                      D_Struct(<<UDTDecl("a", D_Basic(T_I32)),
                                 UDTDecl("r", D_EnumRef("Enumeration"))>>)))}
FunctionDecls ==
    {Function(FuncDecl("hcreate_r", D_Basic(T_Integer),
                       <<D_Basic(T_Usize),
                         D_Basic(T_Pointer(T_Struct("hsearch_data", <<>>)))>>))}
UDTDecls ==
    {UDT(UDTDecl("entry", D_Struct(<<>>))),
     UDT(UDTDecl("Ent", D_Struct(<<UDTDecl("key", D_Basic(PtrChar))>>))),
     UDT(UDTDecl("Dup", DupDecl)),
     UDT(UDTDecl("Enumeration", D_Enum(EnumMulti.variants)))}
Declarations == FreeDecls \cup FunctionDecls \cup UDTDecls
DeclLists == UNION {[1..n -> Declarations] : n \in 0..MaxDecls}

InitResolve ==
    /\ decls \in DeclLists
    /\ rpc = "start"
    /\ ri = 1
    /\ drv = <<>>
    /\ ret = NoResult
    /\ GeneratorIdle /\ TwinIdle /\ DispatchIdle /\ SourceIdle /\ DriverIdle

\* Mutant of ResolveAssert: the assertion is compiled out.
ResolveAssert_unchecked ==
    /\ rpc = "start"
    /\ rpc' = "loop"
    /\ UNCHANGED <<decls, ri, drv, ret, resolveframe>>
\* assert!(decls.len() > 0);
ResolveAssert ==
    /\ rpc = "start"
    /\ rpc' = IF Len(decls) > 0 THEN "loop" ELSE "panicked"
    /\ UNCHANGED <<decls, ri, drv, ret, resolveframe>>

\* Mutant of ResolveDecl: a user-defined-type declaration is lowered too.
ResolveDecl_lowers_udt ==
    /\ rpc = "loop" /\ ri <= Len(decls)
    /\ LET decl == decls[ri]
       IN IF decl.decl = "Free"
          THEN IF type_from_decl_panics(decl.fvar.ty)
               THEN rpc' = "panicked" /\ drv' = <<>> /\ UNCHANGED ri
               ELSE /\ drv' = Append(drv, Decl_Ty(type_from_decl(decl.fvar.ty)))
                    /\ ri' = ri + 1
                    /\ UNCHANGED rpc
          ELSE IF decl.decl = "UDT" /\ ~type_from_decl_panics(decl.udecl.ty)
          THEN /\ drv' = Append(drv, Decl_Ty(type_from_decl(decl.udecl.ty)))
               /\ ri' = ri + 1
               /\ UNCHANGED rpc
          ELSE ri' = ri + 1 /\ UNCHANGED <<rpc, drv>>
    /\ UNCHANGED <<decls, ret, resolveframe>>
\* Mutant of ResolveDecl: a free variable whose type cannot be lowered is
\* skipped.
ResolveDecl_skips ==
    /\ rpc = "loop" /\ ri <= Len(decls)
    /\ LET decl == decls[ri]
       IN IF decl.decl = "Free" /\ ~type_from_decl_panics(decl.fvar.ty)
          THEN /\ drv' = Append(drv, Decl_Ty(type_from_decl(decl.fvar.ty)))
               /\ ri' = ri + 1
               /\ UNCHANGED rpc
          ELSE ri' = ri + 1 /\ UNCHANGED <<rpc, drv>>
    /\ UNCHANGED <<decls, ret, resolveframe>>
\* One iteration of `for decl in decls`; a panic unwinds and drops drv.
ResolveDecl ==
    /\ rpc = "loop" /\ ri <= Len(decls)
    /\ LET decl == decls[ri]
       IN IF decl.decl = "Free"
          THEN IF type_from_decl_panics(decl.fvar.ty)
               THEN rpc' = "panicked" /\ drv' = <<>> /\ UNCHANGED ri
               ELSE /\ drv' = Append(drv, Decl_Ty(type_from_decl(decl.fvar.ty)))
                    /\ ri' = ri + 1
                    /\ UNCHANGED rpc
          ELSE ri' = ri + 1 /\ UNCHANGED <<rpc, drv>>
    /\ UNCHANGED <<decls, ret, resolveframe>>

\* (drv, vec![])
ResolveReturn ==
    /\ rpc = "loop" /\ ri > Len(decls)
    /\ ret' = [drv |-> drv, srcs |-> <<>>]
    /\ rpc' = "returned"
    /\ UNCHANGED <<decls, ri, drv, resolveframe>>

NextResolve ==
    \/ ResolveAssert
    \/ ResolveDecl
    \/ ResolveReturn

SpecResolve == InitResolve /\ [][NextResolve]_vars

\* ------------------------------------------------------------- Source::name
\* Source::free(nm, ty, o)
Source_free(nm, ty, o) ==
    [name |-> nm, generator |-> generator(ty), op |-> o, parent |-> <<>>,
     fqn |-> ""]
\* Source::free_gen(nm, gen, o)
Source_free_gen(nm, g, o) ==
    [name |-> nm, generator |-> g, op |-> o, parent |-> <<>>, fqn |-> ""]
\* Source::bound(parent, o)
Source_bound(parent, o) ==
    [name |-> "", generator |-> GenNothing, op |-> o, parent |-> <<parent>>,
     fqn |-> ""]
\* Source::retval(name, fqn, oper)
Source_retval(name, fqn, oper) ==
    [name |-> name, generator |-> GenNothing, op |-> oper, parent |-> <<>>,
     fqn |-> fqn]

is_free(self) == self.name # "" /\ self.fqn = ""
is_bound(self) == Len(self.parent) = 1
is_retval(self) == self.fqn # ""

\* impl Name for Source: name(); the last branch is unreachable!().
RECURSIVE Source_name(_), Source_name_unreachable(_)
Source_name_unreachable(self) ==
    IF is_free(self) THEN FALSE
    ELSE IF is_bound(self) THEN Source_name_unreachable(self.parent[1])
    ELSE ~is_retval(self)
Source_name(self) ==
    IF is_free(self) THEN self.name
    ELSE IF is_bound(self) THEN Source_name(self.parent[1])
    ELSE self.fqn

\* Number of bound Sources above the root.
RECURSIVE ChainLength(_)
ChainLength(self) ==
    IF Len(self.parent) = 0 THEN 0 ELSE 1 + ChainLength(self.parent[1])

\* The names handed to the constructors; a &str may be empty.
VarNames == {"", "blah", "key"}
FuncNames == {"", "hcreate_r"}

InitSource ==
    /\ \/ \E nm \in VarNames, o \in ScalarOps :
            /\ source = Source_free(nm, T_I32, o)
            /\ made = [by |-> "free", name |-> nm, fqn |-> ""]
       \/ \E nm \in VarNames, o \in ScalarOps :
            /\ source = Source_free_gen(nm, GenOpaque_create(PtrVoid), o)
            /\ made = [by |-> "free_gen", name |-> nm, fqn |-> ""]
       \/ \E nm \in VarNames, fq \in FuncNames, o \in ScalarOps :
            /\ source = Source_retval(nm, fq, o)
            /\ made = [by |-> "retval", name |-> nm, fqn |-> fq]
    /\ named = NotCalled
    /\ GeneratorIdle /\ TwinIdle /\ DispatchIdle /\ ResolveIdle /\ DriverIdle

\* Source::bound(source, o): one more bound Source over the chain.
SourceBound ==
    /\ ChainLength(source) < MaxChain
    /\ \E o \in ScalarOps : source' = Source_bound(source, o)
    /\ named' = NotCalled
    /\ UNCHANGED <<made, sourceframe>>

\* source.name()
SourceName ==
    /\ named = NotCalled
    /\ named' = IF Source_name_unreachable(source)
                THEN [r |-> "unreachable"]
                ELSE [r |-> "name", text |-> Source_name(source)]
    /\ UNCHANGED <<source, made, sourceframe>>

NextSource ==
    \/ SourceBound
    \/ SourceName

SpecSource == InitSource /\ [][NextSource]_vars

\* ---------------------------------------------------- the combination driver
\* The types of the free variables of the function.
DriverTypes == {T_I32, PtrChar, EnumMulti, InnerPair}

InitDriver ==
    /\ \E m \in 1..MaxVars :
         \E tys \in [1..m -> DriverTypes] :
            /\ gens = [i \in 1..m |-> generator(tys[i])]
            /\ catalog \in
                 {c \in [CatalogKinds -> 1..MaxClasses] :
                     \A kind \in CatalogKinds :
                         (\A i \in 1..m : ~UsesCatalog(tys[i], kind))
                             => c[kind] = 1}
    /\ emitted = 0
    /\ dpc = "read"
    /\ NoSourceUnderTest
    /\ TwinIdle /\ DispatchIdle /\ ResolveIdle /\ SourceIdle

\* Every generator of the function reports done().
AllDone == \A i \in 1..Len(gens) : Gen_done(gens[i])

\* Read value() of every generator and hand the tuple to the emission.
DriverEmit ==
    /\ dpc = "read"
    /\ IF \E i \in 1..Len(gens) : Gen_value_panics(gens[i])
       THEN dpc' = "panicked" /\ UNCHANGED emitted
       ELSE dpc' = "check" /\ emitted' = emitted + 1
    /\ UNCHANGED <<gens, driverframe>>

\* Mutant of DriverAdvance: the generators right of the advanced one keep
\* their state.
DriverAdvance_no_reset ==
    /\ dpc = "check" /\ ~AllDone
    /\ LET k == CHOOSE i \in 1..Len(gens) :
                   /\ ~Gen_done(gens[i])
                   /\ \A j \in (i + 1)..Len(gens) : Gen_done(gens[j])
       IN gens' = [gens EXCEPT ![k] = Gen_next(gens[k])]
    /\ dpc' = "read"
    /\ UNCHANGED <<emitted, driverframe>>
\* Advance with carry: the last generator that is not done moves on and
\* every generator right of it is reset.
DriverAdvance ==
    /\ dpc = "check" /\ ~AllDone
    /\ LET k == CHOOSE i \in 1..Len(gens) :
                   /\ ~Gen_done(gens[i])
                   /\ \A j \in (i + 1)..Len(gens) : Gen_done(gens[j])
       IN gens' = [i \in 1..Len(gens) |->
                     IF i = k THEN Gen_next(gens[i])
                     ELSE IF i > k THEN Gen_reset(gens[i])
                     ELSE gens[i]]
    /\ dpc' = "read"
    /\ UNCHANGED <<emitted, driverframe>>

\* Every generator reports done(): the loop ends.
DriverStop ==
    /\ dpc = "check" /\ AllDone
    /\ dpc' = "done"
    /\ UNCHANGED <<gens, emitted, driverframe>>

NextDriver ==
    \/ DriverEmit
    \/ DriverAdvance
    \/ DriverStop

\* The driver is the only thread and runs until its loop ends.
SpecDriver == InitDriver /\ [][NextDriver]_vars /\ WF_vars(NextDriver)

\* ------------------------------------------------------------- properties
\* The index tuples of the product space of a generator: one coordinate per
\* scalar index, each ranging over 0..n_state()-1 of its primitive.
RECURSIVE ProductSpace(_)
ProductSpace(self) ==
    CASE self.g \in {"GenEnum", "GenI32", "GenUsize", "GenPointer",
                     "GenCString"} ->
           {<<i>> : i \in 0..(Gen_n_state(self) - 1)}
      [] self.g = "GenUDT" ->
           LET RECURSIVE prod(_)
               prod(i) ==
                   IF i > Len(self.values) THEN {<<>>}
                   ELSE {a \o b : a \in ProductSpace(self.values[i]),
                                  b \in prod(i + 1)}
           IN prod(1)
      [] OTHER -> {<<>>}

NoDuplicates(s) == Cardinality(SeqRange(s)) = Len(s)

\* a is before b in lexicographic order, first coordinate most significant.
LexLess(a, b) ==
    \E i \in 1..Len(a) :
        /\ a[i] < b[i]
        /\ \A j \in 1..(i - 1) : a[j] = b[j]

EnumeratingKinds ==
    {"GenEnum", "GenI32", "GenUsize", "GenPointer", "GenCString", "GenUDT"}

\* C1: a traversal (value() then next() until done() at a read) from the
\* constructed or reset state never reads an index tuple twice (checked
\* after each read), and when it ends it has read exactly n_state() tuples:
\* the whole product space.
C1_EnumerateAllExactlyOnce ==
    (~failed /\ gen.g \in EnumeratingKinds) =>
        /\ pc = "check" => NoDuplicates(reads)
        /\ pc = "done" =>
              /\ Len(reads) = Gen_n_state(gen)
              /\ SeqRange(reads) = ProductSpace(gen)

\* C1 witness: a finished traversal of a nested aggregate with a
\* single-state member.
C1_Witness ==
    /\ pc = "done"
    /\ gen.g = "GenUDT"
    /\ Len(gen.values) = 2
    /\ gen.values[1].g = "GenUDT"
    /\ Gen_n_state(gen.values[1]) > 1
    /\ Gen_n_state(gen.values[2]) = 1
    /\ Len(reads) = Gen_n_state(gen)
    /\ Len(reads) > 2

\* C2: in a traversal of a GenUDT each read index tuple is the immediate
\* lexicographic successor of the tuple read before it.
C2_LexicographicOrder ==
    (~failed /\ gen.g = "GenUDT" /\ pc = "check" /\ Len(reads) >= 2) =>
        LET a == reads[Len(reads) - 1]
            b == reads[Len(reads)]
        IN /\ LexLess(a, b)
           /\ ~\E t \in ProductSpace(gen) : LexLess(a, t) /\ LexLess(t, b)

\* C2 witness: the traversal has just carried from the last member into the
\* first one.
C2_Witness ==
    /\ pc = "check"
    /\ gen.g = "GenUDT"
    /\ Len(gen.values) = 2
    /\ Len(reads) >= 2
    /\ reads[Len(reads)][1] = reads[Len(reads) - 1][1] + 1
    /\ reads[Len(reads) - 1][Len(reads[1])] > 0
    /\ reads[Len(reads)][Len(reads[1])] = 0

RECURSIVE SeqProduct(_)
SeqProduct(s) == IF s = <<>> THEN 1 ELSE Head(s) * SeqProduct(Tail(s))

RECURSIVE CountIsProduct(_)
CountIsProduct(self) ==
    self.g = "GenUDT" =>
        /\ Gen_n_state(self) =
              SeqProduct([i \in 1..Len(self.values) |->
                              Gen_n_state(self.values[i])])
        /\ Gen_n_state(self) = Cardinality(ProductSpace(self))
        /\ \A i \in 1..Len(self.values) : CountIsProduct(self.values[i])

\* C3: n_state() of a GenUDT is the product of its children's n_state(),
\* recursively, and is the same in every state as right after construction.
C3_StateCountIsProduct ==
    (~failed /\ gen.g = "GenUDT") =>
        /\ CountIsProduct(gen)
        /\ Gen_n_state(gen) = Gen_n_state(gen0)

\* C3 witness: an advanced aggregate with a nested aggregate member.
C3_Witness ==
    /\ gen.g = "GenUDT"
    /\ last = "next"
    /\ gen # gen0
    /\ Len(gen.values) = 2
    /\ gen.values[2].g = "GenUDT"
    /\ Gen_n_state(gen.values[1]) = 8
    /\ Gen_n_state(gen.values[2]) > 1
    /\ Gen_n_state(gen) = 8 * Gen_n_state(gen.values[2])

\* C4: next() on a generator whose done() already holds changes nothing and
\* does not fail, for every generator kind.
C4_NextAtDoneIsNoop ==
    (last = "next" /\ Gen_done(prev)) => (~failed /\ gen = prev)

RECURSIVE IndexInRange(_)
IndexInRange(self) ==
    CASE self.g \in {"GenEnum", "GenI32", "GenUsize", "GenPointer",
                     "GenCString"} ->
           0 <= self.idx /\ self.idx < Gen_n_state(self)
      [] self.g = "GenUDT" ->
           \A i \in 1..Len(self.values) : IndexInRange(self.values[i])
      [] OTHER -> TRUE

\* C5: whatever next() and reset() calls were made, every scalar index is
\* within 0..n_state()-1, and value() of a GenCString does not panic.
C5_IndexInRange ==
    (gen # Unconstructed) =>
        /\ IndexInRange(gen)
        /\ (gen.g = "GenCString" /\ last = "value") => ~failed

\* b is a after one odometer step; c is the generator as constructed.
RECURSIVE OdometerStep(_, _, _)
OdometerStep(a, b, c) ==
    LET n == Len(a.values)
        hits == {i \in 1..n : ~Gen_done(a.values[i])}
    IN IF hits = {} THEN b = a
       ELSE LET r == CHOOSE i \in hits : \A j \in hits : j <= i
            IN /\ b.g = "GenUDT" /\ b.types = a.types /\ b.idx = a.idx
               /\ Len(b.values) = n
               /\ \A i \in 1..n :
                    IF i < r THEN b.values[i] = a.values[i]
                    ELSE IF i > r THEN b.values[i] = c.values[i]
                    ELSE IF a.values[i].g = "GenUDT"
                         THEN OdometerStep(a.values[i], b.values[i],
                                           c.values[i])
                         ELSE b.values[i] =
                                [a.values[i] EXCEPT !.idx = a.values[i].idx + 1]

\* C6: GenUDT::next advances the rightmost child that is not done by one
\* state, puts every child right of it back to index 0, leaves every child
\* left of it alone, and changes nothing when every child is done.
C6_OdometerStep ==
    (last = "next" /\ prev.g = "GenUDT") =>
        /\ ~failed
        /\ OdometerStep(prev, gen, gen0)

\* C6 witness: a step that advanced the middle child of three, reset the
\* child right of it and kept the child left of it at a non-zero index.
C6_Witness ==
    /\ last = "next" /\ prev.g = "GenUDT"
    /\ Len(prev.values) = 2
    /\ prev.values[2].g = "GenUDT"
    /\ Indices(prev)[1] > 0
    /\ Indices(gen)[1] = Indices(prev)[1]
    /\ Indices(gen)[2] = Indices(prev)[2] + 1
    /\ Indices(prev)[3] > 0
    /\ Indices(gen)[3] = 0

\* C7: reset() puts the generator back into the state it had right after
\* construction, with every scalar index at 0.
C7_ResetRestoresConstruction ==
    (last = "reset") =>
        /\ ~failed
        /\ gen = gen0
        /\ \A i \in 1..Len(Indices(gen)) : Indices(gen)[i] = 0

\* C7 witness: reset() was called on a nested aggregate whose first and
\* last scalar indices had advanced.
C7_Witness ==
    /\ last = "reset" /\ pc = "idle"
    /\ prev.g = "GenUDT"
    /\ Len(Indices(prev)) = 3
    /\ Indices(prev)[1] > 0
    /\ Indices(prev)[3] > 0
    /\ gen = gen0

\* struct { pointer char f1; pointer char f2; }
TwoStrings ==
    T_UDT("udt", <<T_Field("f1", PtrChar), T_Field("f2", PtrChar)>>)

\* C8: the aggregate of two character pointers has 64 states, and after k
\* calls of next() from the reset state its indices are (k div 8, k mod 8).
C8_TwoStringFields ==
    (gen0.g = "GenUDT" /\ gen0.types = TwoStrings.types) =>
        /\ Gen_n_state(gen) = 64
        /\ pc = "read" =>
              /\ Len(reads) <= 63
              /\ Indices(gen) = <<Len(reads) \div 8, Len(reads) % 8>>

\* C8 witness: the eighth next() carried into the first field.
C8_Witness ==
    /\ gen0.g = "GenUDT" /\ gen0.types = TwoStrings.types
    /\ pc = "read" /\ last = "next"
    /\ Len(reads) = 8
    /\ Indices(prev) = <<0, 7>>
    /\ Indices(gen) = <<1, 0>>

\* C9: an enum generator has one state per declared variant, and a
\* traversal reads the variants' names one per state in declaration order.
C9_EnumDeclarationOrder ==
    (gen.g = "GenEnum" /\ ~failed) =>
        LET variants == gen.cls.variants
        IN /\ Gen_n_state(gen) = Len(variants)
           /\ pc = "check" => /\ Len(reads) <= Len(variants)
                              /\ out = <<Lit(variants[Len(reads)].name)>>
           /\ pc = "done" => Len(reads) = Len(variants)

\* C9 witness: the third read of {FOO=0, BAR=1, BAZ=42} is BAZ.
C9_Witness ==
    /\ gen.g = "GenEnum"
    /\ gen.cls.variants = EnumMulti.variants
    /\ Gen_n_state(gen) = 3
    /\ pc = "check"
    /\ Len(reads) = 3
    /\ out = <<Lit("BAZ")>>

\* Classes of rendered C strings.
IsQuoted(text) ==
    Len(text) >= 2 /\ text[1] = Ch(Quote) /\ text[Len(text)] = Ch(Quote)
Body(text) == SubSeq(text, 2, Len(text) - 1)
NormalChars == {Ch(c) : c \in 32..126}
ControlChars == {Ch(c) : c \in 0..31}
AllIn(text, chars) == \A i \in 1..Len(text) : text[i] \in chars

\* C10: the indices 0..7 of GenCString render null, the empty string, one
\* normal character, one control character, N normal characters, N control
\* characters, a mix of both and one very long string; index 0 is not the
\* empty string of index 1.
C10_CStringClasses ==
    (gen.g = "GenCString" /\ last = "value" /\ ~failed) =>
        CASE gen.idx = 0 -> ~IsQuoted(out)
          [] gen.idx = 1 -> IsQuoted(out) /\ Body(out) = <<>>
          [] gen.idx = 2 -> /\ IsQuoted(out) /\ Len(Body(out)) = 1
                            /\ AllIn(Body(out), NormalChars)
          [] gen.idx = 3 -> /\ IsQuoted(out) /\ Len(Body(out)) = 1
                            /\ AllIn(Body(out), ControlChars)
          [] gen.idx = 4 -> /\ IsQuoted(out) /\ Len(Body(out)) > 1
                            /\ AllIn(Body(out), NormalChars)
          [] gen.idx = 5 -> /\ IsQuoted(out) /\ Len(Body(out)) > 1
                            /\ AllIn(Body(out), ControlChars)
          [] gen.idx = 6 -> /\ IsQuoted(out) /\ Len(Body(out)) > 1
                            /\ AllIn(Body(out), NormalChars \cup ControlChars)
          [] gen.idx = 7 -> /\ IsQuoted(out) /\ Len(Body(out)) >= 512
                            /\ AllIn(Body(out), NormalChars)

\* Some C-string leaf of the generator stands at an index of S.
RECURSIVE HasCStringAt(_, _)
HasCStringAt(self, S) ==
    CASE self.g = "GenCString" -> self.idx \in S
      [] self.g = "GenUDT" ->
           \E i \in 1..Len(self.values) : HasCStringAt(self.values[i], S)
      [] OTHER -> FALSE

\* A second value() at the state of the read just made returns the text that
\* read returned, whatever the random source yields.
SecondReadAgrees == \A seed \in Seeds : Gen_value(gen, seed) = out

\* C11 as stated: outside the C-string indices 4..7 two reads of value()
\* with no next() or reset() between them return the same text.
C11_ReadsAgreeOutside4to7 ==
    (last = "value" /\ ~failed /\ ~HasCStringAt(gen, 4..7)) => SecondReadAgrees

\* C11 amended: outside the C-string indices 2..7 two reads of value() with
\* no next() or reset() between them return the same text; the one-character
\* classes at indices 2 and 3 draw their character at each read.
C11_ReadsAgreeOutside2to7 ==
    (last = "value" /\ ~failed /\ ~HasCStringAt(gen, 2..7)) => SecondReadAgrees

C11_Witness ==
    /\ last = "value" /\ ~failed /\ pc = "idle"
    /\ gen.g = "GenUDT" /\ Len(gen.values) = 2
    /\ HasCStringAt(gen, {1}) /\ ~HasCStringAt(gen, 2..7)
    /\ out # <<>>

C13_DispatchOnShape ==
    (built # Unconstructed) =>
        /\ (arg.k = "Enum") => built.g = "GenEnum"
        /\ (arg.k \in {"I32", "Integer"}) => built.g = "GenI32"
        /\ (arg.k = "Usize") => built.g = "GenUsize"
        /\ (arg.k = "Pointer" /\ arg.to = T_Character) =>
               (built.g = "GenCString" /\ Gen_n_state(built) = 8)
        /\ (arg.k = "Pointer" /\ arg.to # T_Character) =>
               built.g = "GenPointer"

C13_Witness == arg = PtrChar /\ built.g = "GenCString"

\* The member types of an aggregate or struct type, in declaration order.
MemberTypesOf(t) ==
    IF t.k = "UDT" THEN t.types
    ELSE [i \in 1..Len(t.flds) |-> t.flds[i][2]]

\* The result is a composite with one child per member, in declaration
\* order, each child being what generator() yields for the member.
CompositeOf(t, g) ==
    /\ g.g = "GenUDT"
    /\ Len(g.values) = Len(MemberTypesOf(t))
    /\ \A i \in 1..Len(g.values) : g.values[i] = generator(MemberTypesOf(t)[i])

\* C14: generator(t) yields a composite generator for a user-defined
\* aggregate type and for a struct type, with one child per member in
\* declaration order obtained by the same dispatch.
C14_CompositePerMember ==
    (/\ built # Unconstructed
     /\ arg.k \in {"UDT", "Struct"}
     /\ \A i \in 1..Len(MemberTypesOf(arg)) :
            ~generator_panics(MemberTypesOf(arg)[i]))
    => CompositeOf(arg, built)

\* C15: resolving an empty declaration list fails fatally before any type
\* is produced and before any generator is constructed; nothing is returned.
C15_EmptyListFails ==
    (decls = <<>> /\ rpc # "start") =>
        /\ rpc = "panicked"
        /\ drv = <<>>
        /\ ret = NoResult
        /\ gen = Unconstructed

C15_Witness == decls = <<>> /\ rpc = "panicked"

IsFree(decl) == decl.decl = "Free"
\* The free-variable declarations of the list, in declaration order.
FreeVars == SelectSeq(decls, IsFree)

\* C16: resolve_types yields one type per free-variable declaration, in
\* declaration order, and one Source root per free-variable declaration.
C16_OneTypeAndSourcePerFreeVar ==
    (rpc = "returned") =>
        /\ Len(ret.drv) = Len(FreeVars)
        /\ \A j \in 1..Len(FreeVars) :
               ret.drv[j] = Decl_Ty(type_from_decl(FreeVars[j].fvar.ty))
        /\ Len(ret.srcs) = Len(FreeVars)

\* Two members of a struct declaration carry the same name.
DuplicateMembers(ty) ==
    /\ ty.d = "Struct"
    /\ \E i, j \in 1..Len(ty.udt) : i # j /\ ty.udt[i].name = ty.udt[j].name

\* C17: a list holding a user-defined-type declaration with two members of
\* the same name is rejected: resolve_types does not return.
C17_DuplicateMembersRejected ==
    (\E i \in 1..Len(decls) :
        decls[i].decl = "UDT" /\ DuplicateMembers(decls[i].udecl.ty))
    => rpc # "returned"

\* The field names of a struct type, and of the struct types below it, are
\* pairwise distinct.
RECURSIVE DistinctFieldNames(_)
DistinctFieldNames(t) ==
    (t.k = "Struct") =>
        /\ \A i, j \in 1..Len(t.flds) : i # j => t.flds[i][1] # t.flds[j][1]
        /\ \A i \in 1..Len(t.flds) : DistinctFieldNames(t.flds[i][2])

\* C18: every struct type type_from_decl produces from a struct declaration
\* has pairwise distinct field names.
C18_DistinctFieldNames ==
    \A i \in 1..Len(drv) : DistinctFieldNames(drv[i].ty)

\* name() returned the display name of the root of the chain: the variable
\* name for a root built by Source::free, the fully-qualified name for a
\* root built by Source::retval.
NameOfRoot ==
    /\ named.r = "name"
    /\ (made.by = "free") => named.text = made.name
    /\ (made.by = "retval") => named.text = made.fqn

\* C19: for every Source built by free or retval and every chain of bound
\* Sources over it, name() returns the display name of the root and never
\* reaches the unreachable branch.
C19_NameOfRootAlways ==
    (named # NotCalled /\ made.by \in {"free", "retval"}) => NameOfRoot

\* The product of n_state() over the generators of the function.
DriverProduct ==
    SeqProduct([i \in 1..Len(gens) |-> Gen_n_state(gens[i])])

\* The loop is left exactly at the emission at which every generator
\* reports done(), and that emission is the last of the product.
DriverCount ==
    /\ emitted <= DriverProduct
    /\ (dpc = "check") => (AllDone <=> emitted = DriverProduct)
    /\ (dpc = "done") => (AllDone /\ emitted = DriverProduct)
    /\ dpc # "panicked"

\* C20: the combination driver loop terminates, it terminates exactly when
\* every generator reports done(), and the number of emitted combinations
\* is the product of n_state() over the generators.
C20_DriverTerminates == []DriverCount /\ <>(dpc = "done")

C20_Witness ==
    /\ dpc = "done" /\ Len(gens) = 2
    /\ gens[1].g = "GenCString" /\ gens[2].g = "GenUDT"
    /\ emitted = 8 * Gen_n_state(gens[2]) /\ emitted > 8

\* Some free-variable declaration of the list has a type type_from_decl
\* cannot lower.
Unlowerable == \E j \in 1..Len(FreeVars) : type_from_decl_panics(FreeVars[j].fvar.ty)

\* C21: resolve_types leaves function and user-defined-type declarations
\* unlowered: the outcome for a non-empty list is determined by its
\* free-variable declarations alone, and a returned result holds one type
\* per free-variable declaration.
C21_OnlyFreeVarsLowered ==
    (decls # <<>> /\ rpc \in {"returned", "panicked"}) =>
        IF Unlowerable
        THEN rpc = "panicked" /\ ret = NoResult
        ELSE /\ rpc = "returned"
             /\ Len(ret.drv) = Len(FreeVars)
             /\ ret.drv = [j \in 1..Len(FreeVars) |->
                              Decl_Ty(type_from_decl(FreeVars[j].fvar.ty))]
             /\ ret.srcs = <<>>

C21_Witness ==
    /\ rpc = "returned" /\ Len(decls) = 2
    /\ decls[1].decl = "UDT" /\ decls[2].decl = "Free"
    /\ Len(ret.drv) = 1

\* Index of the first free-variable declaration whose type cannot be lowered.
FirstUnlowerable ==
    CHOOSE i \in 1..Len(decls) :
        /\ IsFree(decls[i]) /\ type_from_decl_panics(decls[i].fvar.ty)
        /\ \A j \in 1..(i - 1) :
               ~(IsFree(decls[j]) /\ type_from_decl_panics(decls[j].fvar.ty))

\* C22: resolution is all-or-nothing: when a free-variable declaration has
\* a type the resolver cannot lower, resolve_types never returns, returns no
\* types, and the loop does not pass the offending declaration.
C22_AllOrNothing ==
    Unlowerable =>
        /\ rpc # "returned"
        /\ ret = NoResult
        /\ ri <= FirstUnlowerable
        /\ (rpc = "panicked") => (ri = FirstUnlowerable /\ drv = <<>>)

C22_Witness ==
    /\ rpc = "panicked" /\ Len(decls) = 2 /\ ri = 2
    /\ IsFree(decls[1]) /\ ~type_from_decl_panics(decls[1].fvar.ty)
    /\ IsFree(decls[2]) /\ decls[2].fvar.ty.d = "StructRef"

\* C23: done() is absorbing under next(): a generator that reports done()
\* still reports it after next() and after value(), and only reset() takes
\* a generator from done() to not done().
C23_DoneIsAbsorbing ==
    (gen # Unconstructed) =>
        /\ (last \in {"next", "value"} /\ Gen_done(prev)) => Gen_done(gen)
        /\ (Gen_done(prev) /\ ~Gen_done(gen)) => last = "reset"

C23_Witness ==
    /\ last = "next" /\ Gen_done(prev) /\ Gen_done(gen)
    /\ gen.g = "GenUDT" /\ Len(gen.values) = 2
    /\ HasCStringAt(gen, {7})

\* A child that reported done() before a call of the parent is afterwards
\* as it was or reset, at every depth: next() was not applied to it.
RECURSIVE NoDoneChildAdvanced(_, _)
NoDoneChildAdvanced(before, after) ==
    (before.g = "GenUDT") =>
        \A i \in 1..Len(before.values) :
            LET b == before.values[i]
                a == after.values[i]
            IN /\ Gen_done(b) => a \in {b, Gen_reset(b)}
               /\ NoDoneChildAdvanced(b, a)

\* C24: children driven only through their parent GenUDT are never advanced
\* when done(), so every child index stays within 0..n_state()-1 and a
\* C-string child never reaches index 8.
C24_ChildrenStayInRange ==
    (gen.g = "GenUDT") =>
        /\ IndexInRange(gen)
        /\ ~HasCStringAt(gen, {8})
        /\ (last = "next") => NoDoneChildAdvanced(prev, gen)

C24_Witness ==
    /\ gen.g = "GenUDT" /\ last = "next" /\ Gen_done(prev)
    /\ \E i \in 1..Len(gen.values) :
           /\ gen.values[i].g = "GenUDT"
           /\ HasCStringAt(gen.values[i], {7})

\* The generator under test was built for an aggregate without members.
EmptyComposite == gen0.g = "GenUDT" /\ Len(gen0.values) = 0

\* C25: a composite generator with zero members is a consistent one-state
\* generator: n_state() is 1, done() holds from construction on, next() and
\* reset() change nothing, value() renders the empty aggregate and a full
\* traversal makes exactly one read.
C25_EmptyCompositeOneState ==
    EmptyComposite =>
        /\ ~failed
        /\ Gen_n_state(gen) = 1
        /\ Gen_done(gen)
        /\ gen = gen0
        /\ (last = "value") => out = <<Lit("{\n"), Lit("\t}")>>
        /\ (pc = "read") => reads = <<>>
        /\ (pc \in {"check", "done"}) => reads = << <<>> >>

C25_Witness ==
    /\ EmptyComposite /\ pc = "done"
    /\ reads = << <<>> >>
    /\ Gen_n_state(gen) = 1

============================================================================
